---- MODULE Spec2Model ----
(***************************************************************************)
(* Nepali compound-interest calculator (src/.../src/app/page.tsx).         *)
(*                                                                         *)
(* Strings typed into the form are sequences of one-character strings, so  *)
(* that parseFloat, the date pattern and split('-') act on characters.     *)
(* JavaScript numbers are exact rationals [n, d] in lowest terms (d > 0);  *)
(* NaN is the value with d = 0.  Every quantity the calculator derives     *)
(* from decimal inputs by +, *, /100, /12 and /30 is such a rational.      *)
(***************************************************************************)
EXTENDS Integers, Sequences, FiniteSets, TLC

VARIABLES inputs, result, error, savedCalculations, currentView,
          mobileMenuOpen, storage, mounted, clock, rateArg, rates

vars == <<inputs, result, error, savedCalculations, currentView,
          mobileMenuOpen, storage, mounted, clock, rateArg, rates>>

(***************************************************************************)
(* Numbers                                                                 *)
(***************************************************************************)
Abs(i) == IF i < 0 THEN -i ELSE i

RECURSIVE GCD(_, _)
GCD(a, b) == IF b = 0 THEN a ELSE GCD(b, a % b)

NaN == [n |-> 0, d |-> 0]

isNaN(x) == x.d = 0

Norm(n, d) ==
    IF n = 0 THEN [n |-> 0, d |-> 1]
    ELSE LET g == GCD(Abs(n), d) IN [n |-> n \div g, d |-> d \div g]

Num(i) == [n |-> i, d |-> 1]

Frac(n, d) == Norm(n, d)

Neg(x) == [n |-> -x.n, d |-> x.d]

Add(x, y) ==
    LET g == GCD(x.d, y.d)
        l == (x.d \div g) * y.d
    IN  Norm(x.n * (l \div x.d) + y.n * (l \div y.d), l)

Sub(x, y) == Add(x, Neg(y))

\* cross-cancelled before multiplying, so that the intermediate products
\* stay as small as the result
Mul(x, y) ==
    IF x.n = 0 \/ y.n = 0 THEN Num(0)
    ELSE LET g1 == GCD(Abs(x.n), y.d)
             g2 == GCD(Abs(y.n), x.d)
         IN  [n |-> (x.n \div g1) * (y.n \div g2),
              d |-> (x.d \div g2) * (y.d \div g1)]

\* x / y for y > 0 (the code divides by 100, 12 and 30 only)
Div(x, y) == Mul(x, [n |-> y.d, d |-> y.n])

Lt(x, y) == x.n * y.d < y.n * x.d

Le(x, y) == x.n * y.d <= y.n * x.d

\* Math.round: the integer nearest to x, ties towards +Infinity
MathRound(x) == Num((2 * x.n + x.d) \div (2 * x.d))

\* Number.prototype.toFixed(2): nearest multiple of 0.01, ties away from zero
toFixed2(x) ==
    LET m == Mul(IF x.n < 0 THEN Neg(x) ELSE x, Num(100))
        r == Div(MathRound(m), Num(100))
    IN  IF x.n < 0 THEN Neg(r) ELSE r

(***************************************************************************)
(* Strings                                                                 *)
(***************************************************************************)
DigitChars == <<"0", "1", "2", "3", "4", "5", "6", "7", "8", "9">>

IsDigit(c) == \E i \in 1..10 : DigitChars[i] = c

DigitVal(c) == (CHOOSE i \in 1..10 : DigitChars[i] = c) - 1

\* number of consecutive digits of s starting at position i
RECURSIVE DigitRun(_, _)
DigitRun(s, i) ==
    IF i <= Len(s) /\ IsDigit(s[i]) THEN 1 + DigitRun(s, i + 1) ELSE 0

\* value of the k digits of s starting at position i
RECURSIVE DigitsValue(_, _, _)
DigitsValue(s, i, k) ==
    IF k = 0 THEN 0
    ELSE 10 * DigitsValue(s, i, k - 1) + DigitVal(s[i + k - 1])

RECURSIVE Pow10(_)
Pow10(k) == IF k = 0 THEN 1 ELSE 10 * Pow10(k - 1)

\* parseFloat: optional sign, digits, optional point and digits; the longest
\* such prefix is the value, and NaN when it holds no digit.
parseFloat(s) ==
    LET signed   == Len(s) >= 1 /\ s[1] \in {"+", "-"}
        i0       == IF signed THEN 2 ELSE 1
        ni       == DigitRun(s, i0)
        hasPoint == i0 + ni <= Len(s) /\ s[i0 + ni] = "."
        nf       == IF hasPoint THEN DigitRun(s, i0 + ni + 1) ELSE 0
        mag      == Add(Num(DigitsValue(s, i0, ni)),
                        Frac(DigitsValue(s, i0 + ni + 1, nf), Pow10(nf)))
    IN  IF ni = 0 /\ nf = 0 THEN NaN
        ELSE IF signed /\ s[1] = "-" THEN Neg(mag) ELSE mag

\* /^\d{4}-\d{2}-\d{2}$/.test(s)
datePattern(s) ==
    /\ Len(s) = 10
    /\ \A i \in {1, 2, 3, 4, 6, 7, 9, 10} : IsDigit(s[i])
    /\ s[5] = "-"
    /\ s[8] = "-"

\* s.split(sep)
RECURSIVE Split(_, _)
Split(s, sep) ==
    IF \A i \in 1..Len(s) : s[i] # sep THEN <<s>>
    ELSE LET k == CHOOSE i \in 1..Len(s) :
                      s[i] = sep /\ \A j \in 1..(i - 1) : s[j] # sep
         IN  <<SubSeq(s, 1, k - 1)>> \o Split(SubSeq(s, k + 1, Len(s)), sep)

\* Number(piece) for a piece made of digits ("" is 0)
Number(piece) == DigitsValue(piece, 1, Len(piece))

(***************************************************************************)
(* BS date utilities                                                       *)
(***************************************************************************)
BS_DAYS_PER_MONTH == 30

BS_MONTHS_PER_YEAR == 12

parseBSDate(dateString) ==
    LET parts == Split(dateString, "-")
    IN  [year  |-> Number(parts[1]),
         month |-> Number(parts[2]),
         day   |-> Number(parts[3])]

\* a thrown Error and a returned value
Throw(msg) == [threw |-> TRUE, message |-> msg]

Return(v) == [threw |-> FALSE, value |-> v]

OrderingMsg == "End date must be after start date"

\* the component-wise difference with borrowing (after the ordering check)
BorrowedDifference_inclusive(start, end) ==
    LET years0  == end.year - start.year
        months0 == end.month - start.month
        days0   == end.day - start.day + 1
        months1 == IF days0 < 0 THEN months0 - 1 ELSE months0
        days    == IF days0 < 0 THEN days0 + BS_DAYS_PER_MONTH ELSE days0
        years   == IF months1 < 0 THEN years0 - 1 ELSE years0
        months  == IF months1 < 0 THEN months1 + BS_MONTHS_PER_YEAR ELSE months1
    IN  [years |-> years, months |-> months, days |-> days]

BorrowedDifference(start, end) ==
    LET years0  == end.year - start.year
        months0 == end.month - start.month
        days0   == end.day - start.day
        months1 == IF days0 < 0 THEN months0 - 1 ELSE months0
        days    == IF days0 < 0 THEN days0 + BS_DAYS_PER_MONTH ELSE days0
        years   == IF months1 < 0 THEN years0 - 1 ELSE years0
        months  == IF months1 < 0 THEN months1 + BS_MONTHS_PER_YEAR ELSE months1
    IN  [years |-> years, months |-> months, days |-> days]

calculateBSDateDifference_noDayCheck(startDateStr, endDateStr) ==
    LET start == parseBSDate(startDateStr)
        end   == parseBSDate(endDateStr)
    IN  IF \/ end.year < start.year
           \/ (end.year = start.year /\ end.month < start.month)
        THEN Throw(OrderingMsg)
        ELSE Return(BorrowedDifference(start, end))

calculateBSDateDifference_strict(startDateStr, endDateStr) ==
    LET start == parseBSDate(startDateStr)
        end   == parseBSDate(endDateStr)
    IN  IF \/ end.year < start.year
           \/ (end.year = start.year /\ end.month < start.month)
           \/ (end.year = start.year /\ end.month = start.month
                 /\ end.day <= start.day)
        THEN Throw(OrderingMsg)
        ELSE Return(BorrowedDifference(start, end))

calculateBSDateDifference(startDateStr, endDateStr) ==
    LET start == parseBSDate(startDateStr)
        end   == parseBSDate(endDateStr)
    IN  IF \/ end.year < start.year
           \/ (end.year = start.year /\ end.month < start.month)
           \/ (end.year = start.year /\ end.month = start.month
                 /\ end.day < start.day)
        THEN Throw(OrderingMsg)
        ELSE Return(BorrowedDifference(start, end))

(***************************************************************************)
(* Nepali interest calculation logic                                       *)
(***************************************************************************)
PrincipalMsg == "Principal must be greater than 0"

RateMsg == "Interest rate cannot be negative"

isMonthlyRate_inclusive(interestRate) == Le(interestRate, Num(10))

isMonthlyRate(interestRate) == Lt(interestRate, Num(10))

monthlyRate(interestRate) ==
    IF isMonthlyRate(interestRate) THEN interestRate
    ELSE Div(interestRate, Num(12))

annualRate(interestRate) ==
    IF isMonthlyRate(interestRate) THEN Mul(interestRate, Num(12))
    ELSE interestRate

\* one line of the details text: `each` x `times` = `product`
Detail(label, each, times, product) ==
    [label |-> label, each |-> each, times |-> times, product |-> product]

YearEntry_subtract(year, currentPrincipal, aRate) ==
    LET yearlyInterest == Div(Mul(currentPrincipal, aRate), Num(100))
        newAmount      == Sub(currentPrincipal, yearlyInterest)
    IN  [period            |-> "Year " \o ToString(year),
         startingPrincipal |-> currentPrincipal,
         interest          |-> yearlyInterest,
         endingAmount      |-> newAmount,
         details           |-> <<Detail("%", toFixed2(currentPrincipal), aRate,
                                        toFixed2(yearlyInterest))>>]

\* one pass of the body of the yearly loop
YearEntry(year, currentPrincipal, aRate) ==
    LET yearlyInterest == Div(Mul(currentPrincipal, aRate), Num(100))
        newAmount      == Add(currentPrincipal, yearlyInterest)
    IN  [period            |-> "Year " \o ToString(year),
         startingPrincipal |-> currentPrincipal,
         interest          |-> yearlyInterest,
         endingAmount      |-> newAmount,
         details           |-> <<Detail("%", toFixed2(currentPrincipal), aRate,
                                        toFixed2(yearlyInterest))>>]

RECURSIVE YearLoop_offByOne(_, _, _, _, _)
YearLoop_offByOne(year, years, currentPrincipal, aRate, breakdown) ==
    IF year < years
    THEN LET entry == YearEntry(year, currentPrincipal, aRate)
         IN  YearLoop_offByOne(year + 1, years, entry.endingAmount, aRate,
                               Append(breakdown, entry))
    ELSE [breakdown |-> breakdown, currentPrincipal |-> currentPrincipal]

\* for (let year = 1; year <= dateDiff.years; year++) { ... }
RECURSIVE YearLoop(_, _, _, _, _)
YearLoop(year, years, currentPrincipal, aRate, breakdown) ==
    IF year <= years
    THEN LET entry == YearEntry(year, currentPrincipal, aRate)
         IN  YearLoop(year + 1, years, entry.endingAmount, aRate,
                      Append(breakdown, entry))
    ELSE [breakdown |-> breakdown, currentPrincipal |-> currentPrincipal]

Plural(count, unit) ==
    ToString(count) \o " " \o unit \o (IF count > 1 THEN "s" ELSE "")

PartialAmounts_monthlyPerDay(dateDiff, currentPrincipal, mRate) ==
    LET monthlyInterestAmount == Div(Mul(currentPrincipal, mRate), Num(100))
        monthsInterest == Mul(monthlyInterestAmount, Num(dateDiff.months))
        dailyInterestAmount ==
            Div(monthlyInterestAmount, Num(BS_DAYS_PER_MONTH))
        daysInterest    == Mul(monthlyInterestAmount, Num(dateDiff.days))
        partialInterest == Add(monthsInterest, daysInterest)
    IN  [monthlyInterestAmount |-> monthlyInterestAmount,
         monthsInterest        |-> monthsInterest,
         dailyInterestAmount   |-> dailyInterestAmount,
         daysInterest          |-> daysInterest,
         partialInterest       |-> partialInterest,
         newAmount             |-> Add(currentPrincipal, partialInterest)]

\* the amounts of the trailing period
PartialAmounts(dateDiff, currentPrincipal, mRate) ==
    LET monthlyInterestAmount == Div(Mul(currentPrincipal, mRate), Num(100))
        monthsInterest == Mul(monthlyInterestAmount, Num(dateDiff.months))
        dailyInterestAmount ==
            Div(monthlyInterestAmount, Num(BS_DAYS_PER_MONTH))
        daysInterest    == Mul(dailyInterestAmount, Num(dateDiff.days))
        partialInterest == Add(monthsInterest, daysInterest)
    IN  [monthlyInterestAmount |-> monthlyInterestAmount,
         monthsInterest        |-> monthsInterest,
         dailyInterestAmount   |-> dailyInterestAmount,
         daysInterest          |-> daysInterest,
         partialInterest       |-> partialInterest,
         newAmount             |-> Add(currentPrincipal, partialInterest)]

\* the trailing entry for the months and days left after the full years
PartialEntry(dateDiff, currentPrincipal, mRate) ==
    LET amounts == PartialAmounts(dateDiff, currentPrincipal, mRate)
        periodLabel ==
            IF dateDiff.months > 0 /\ dateDiff.days > 0
            THEN Plural(dateDiff.months, "month") \o " "
                   \o Plural(dateDiff.days, "day")
            ELSE IF dateDiff.months > 0 THEN Plural(dateDiff.months, "month")
            ELSE Plural(dateDiff.days, "day")
        details ==
            (IF dateDiff.months > 0
             THEN <<Detail("months", toFixed2(amounts.monthlyInterestAmount),
                           Num(dateDiff.months),
                           toFixed2(amounts.monthsInterest))>>
             ELSE <<>>)
            \o
            (IF dateDiff.days > 0
             THEN <<Detail("days", toFixed2(amounts.dailyInterestAmount),
                           Num(dateDiff.days),
                           toFixed2(amounts.daysInterest))>>
             ELSE <<>>)
    IN  [period            |-> periodLabel,
         startingPrincipal |-> currentPrincipal,
         interest          |-> amounts.partialInterest,
         endingAmount      |-> amounts.newAmount,
         details           |-> details]

\* Math.round(x * 100) / 100
Round2(x) == Div(MathRound(Mul(x, Num(100))), Num(100))

calculateNepaliInterest(principal, interestRate, startDate, endDate) ==
    IF Le(principal, Num(0)) THEN Throw(PrincipalMsg)
    ELSE IF Lt(interestRate, Num(0)) THEN Throw(RateMsg)
    ELSE
    LET diff == calculateBSDateDifference(startDate, endDate) IN
    IF diff.threw THEN diff
    ELSE
    LET dateDiff == diff.value
        mRate    == monthlyRate(interestRate)
        aRate    == annualRate(interestRate)
        yearly   == YearLoop(1, dateDiff.years, principal, aRate, <<>>)
        hasPartial == dateDiff.months > 0 \/ dateDiff.days > 0
        partial  == PartialEntry(dateDiff, yearly.currentPrincipal, mRate)
        breakdown == IF hasPartial THEN Append(yearly.breakdown, partial)
                     ELSE yearly.breakdown
        finalAmount == IF hasPartial THEN partial.endingAmount
                       ELSE yearly.currentPrincipal
        totalInterest == Sub(finalAmount, principal)
    IN  Return([finalAmount   |-> Round2(finalAmount),
                totalInterest |-> Round2(totalInterest),
                timeDuration  |-> dateDiff,
                breakdown     |-> breakdown])

(***************************************************************************)
(* JSON text                                                               *)
(*                                                                         *)
(* A JSON text is a sequence of tokens: the punctuation marks, and one     *)
(* token for each key, string and number literal.                          *)
(***************************************************************************)
NULL == [null |-> TRUE]

Tok(k, v) == [k |-> k, v |-> v]

Punct(c) == Tok(c, <<>>)

KeyTok(name) == Tok("key", <<name>>)

\* a string literal: of a text held as characters, and of a text held whole
StrTok(chars) == Tok("str", chars)

TextTok(text) == Tok("text", <<text>>)

\* a number literal: of a number, and of an integer count
NumTok(x) == IF isNaN(x) THEN Punct("null") ELSE Tok("num", <<x.n, x.d>>)

IntTok(i) == Tok("int", <<i>>)

RECURSIVE Joined(_)
Joined(parts) ==
    IF Len(parts) = 0 THEN <<>>
    ELSE IF Len(parts) = 1 THEN parts[1]
    ELSE parts[1] \o <<Punct(",")>> \o Joined(Tail(parts))

Member(name, text) == <<KeyTok(name), Punct(":")>> \o text

ObjectText(members) == <<Punct("{")>> \o Joined(members) \o <<Punct("}")>>

ArrayText(elements) == <<Punct("[")>> \o Joined(elements) \o <<Punct("]")>>

StringifyInputs(in) ==
    ObjectText(<< Member("principal", <<StrTok(in.principal)>>),
                  Member("interestRate", <<StrTok(in.interestRate)>>),
                  Member("startDate", <<StrTok(in.startDate)>>),
                  Member("endDate", <<StrTok(in.endDate)>>) >>)

StringifyEntry(e) ==
    ObjectText(<< Member("period", <<TextTok(e.period)>>),
                  Member("startingPrincipal", <<NumTok(e.startingPrincipal)>>),
                  Member("interest", <<NumTok(e.interest)>>),
                  Member("endingAmount", <<NumTok(e.endingAmount)>>),
                  Member("details", <<Tok("details", e.details)>>) >>)

StringifyResult(r) ==
    ObjectText(<< Member("finalAmount", <<NumTok(r.finalAmount)>>),
                  Member("totalInterest", <<NumTok(r.totalInterest)>>),
                  Member("timeDuration",
                         ObjectText(<<
                             Member("years", <<IntTok(r.timeDuration.years)>>),
                             Member("months", <<IntTok(r.timeDuration.months)>>),
                             Member("days", <<IntTok(r.timeDuration.days)>>) >>)),
                  Member("breakdown",
                         ArrayText([i \in 1..Len(r.breakdown) |->
                                       StringifyEntry(r.breakdown[i])])) >>)

StringifySaved(c) ==
    ObjectText(<< Member("id", <<StrTok(c.id)>>),
                  Member("timestamp", <<IntTok(c.timestamp)>>),
                  Member("inputs", StringifyInputs(c.inputs)),
                  Member("result", StringifyResult(c.result)),
                  Member("name", <<StrTok(c.name)>>) >>)

\* JSON.stringify of an array of saved calculations
JSONstringify(calcs) ==
    ArrayText([i \in 1..Len(calcs) |-> StringifySaved(calcs[i])])

\* what the parser has read: the type of the value, the value, and the
\* position after it
Parsed(type, value, next) ==
    [ok |-> TRUE, type |-> type, value |-> value, next |-> next]

Unparsed == [ok |-> FALSE]

RECURSIVE ParseValue(_, _)
RECURSIVE ParseElements(_, _, _)
RECURSIVE ParseMembers(_, _, _)

ParseValue(t, i) ==
    IF i > Len(t) THEN Unparsed
    ELSE CASE t[i].k = "str"     -> Parsed("string", t[i].v, i + 1)
           [] t[i].k = "text"    -> Parsed("string", t[i].v[1], i + 1)
           [] t[i].k = "details" -> Parsed("string", t[i].v, i + 1)
           [] t[i].k = "num"     ->
                Parsed("number", [n |-> t[i].v[1], d |-> t[i].v[2]], i + 1)
           [] t[i].k = "int"     -> Parsed("number", t[i].v[1], i + 1)
           [] t[i].k = "null"    -> Parsed("null", NULL, i + 1)
           [] t[i].k = "["       ->
                IF i + 1 <= Len(t) /\ t[i + 1].k = "]"
                THEN Parsed("array", <<>>, i + 2)
                ELSE ParseElements(t, i + 1, <<>>)
           [] t[i].k = "{"       ->
                IF i + 1 <= Len(t) /\ t[i + 1].k = "}"
                THEN Parsed("object", <<>>, i + 2)
                ELSE ParseMembers(t, i + 1, <<>>)
           [] OTHER              -> Unparsed

\* the elements of an array from position i on; e is the element read
\* at i, read once
ParseElements(t, i, acc) ==
    CHOOSE p \in
        { IF ~e.ok \/ e.next > Len(t) THEN Unparsed
          ELSE IF t[e.next].k = ","
          THEN ParseElements(t, e.next + 1, Append(acc, e.value))
          ELSE IF t[e.next].k = "]"
          THEN Parsed("array", Append(acc, e.value), e.next + 1)
          ELSE Unparsed : e \in {ParseValue(t, i)} } : TRUE

\* the members of an object from position i on; e is the value read after
\* the key at i, read once
ParseMembers(t, i, acc) ==
    IF i + 1 > Len(t) \/ t[i].k # "key" \/ t[i + 1].k # ":" THEN Unparsed
    ELSE CHOOSE p \in
        { IF ~e.ok \/ e.next > Len(t) THEN Unparsed
          ELSE IF t[e.next].k = ","
          THEN ParseMembers(t, e.next + 1, (t[i].v[1] :> e.value) @@ acc)
          ELSE IF t[e.next].k = "}"
          THEN Parsed("object", (t[i].v[1] :> e.value) @@ acc, e.next + 1)
          ELSE Unparsed : e \in {ParseValue(t, i + 2)} } : TRUE

\* JSON.parse: the value with its type, or a SyntaxError
JSONparse(text) ==
    LET p == ParseValue(text, 1)
    IN  IF p.ok /\ p.next = Len(text) + 1
        THEN Return([type |-> p.type, value |-> p.value])
        ELSE Throw("SyntaxError")

(***************************************************************************)
(* React component: state, inputs of the form, handlers                    *)
(***************************************************************************)

MinYear == 2078

MaxYear == 2080

\* the text of a BS date: 4-digit year, 2-digit month, 2-digit day
Digit(i) == DigitChars[i + 1]

FormatBSDate(y, m, d) ==
    << Digit((y \div 1000) % 10), Digit((y \div 100) % 10),
       Digit((y \div 10) % 10), Digit(y % 10), "-",
       Digit((m \div 10) % 10), Digit(m % 10), "-",
       Digit((d \div 10) % 10), Digit(d % 10) >>

\* Texts the two type="number" fields can hold: the browser hands over a
\* decimal literal, or "" when the field is empty or holds no number.
PrincipalStrings ==
    { <<"1", "0", "0", "0", "0", "0">>, <<"0", ".", "0", "0", "5">>,
      <<"0">>, <<"-", "5">>, <<>> }

RateStrings ==
    { <<"3">>, <<"1", "0">>, <<"0">>, <<"-", "1">>, <<>> }

\* Texts of the two free-text date fields: the first day of every year, a
\* day inside a year, a date whose day is beyond 30, and a date written
\* with slashes.
DateStrings ==
    { FormatBSDate(y, 1, 1) : y \in MinYear..MaxYear }
      \cup { FormatBSDate(2080, 4, 4), FormatBSDate(MinYear, 1, 40),
             <<"2", "0", "8", "0", "/", "0", "1", "/", "0", "1">> }

Fields == {"principal", "interestRate", "startDate", "endDate"}

FieldStrings(field) ==
    CASE field = "principal"    -> PrincipalStrings
      [] field = "interestRate" -> RateStrings
      [] OTHER                  -> DateStrings

InvalidPrincipalMsg == "Please enter a valid principal amount greater than 0"

InvalidRateMsg == "Please enter a valid interest rate (0 or greater)"

InvalidDateMsg == "Please enter dates in YYYY-MM-DD format (BS calendar)"

DefaultInputs ==
    [principal    |-> <<"1", "0", "0", "0", "0", "0">>,
     interestRate |-> <<"3">>,
     startDate    |-> FormatBSDate(2078, 1, 1),
     endDate      |-> FormatBSDate(2080, 4, 4)]

\* a JavaScript value held in savedCalculations, with its type
ArrayOf(items) == [type |-> "array", value |-> items]

\* localStorage.getItem(key): no item, or the text of the item
NoItem == [present |-> FALSE, text |-> <<>>]

Item(text) == [present |-> TRUE, text |-> text]

Views == {"calculator", "saved", "about", "started"}

\* the render reads savedCalculations.length in the navigation bar, and
\* maps over savedCalculations in the saved view unless that length is 0
RenderThrows(saved, view) ==
    \/ saved.type = "null"
    \/ /\ view = "saved"
       /\ saved.type # "array"
       /\ ~(saved.type = "string" /\ Len(saved.value) = 0)

\* the page is on screen and takes clicks: the startup effect has run and
\* no render has thrown
Usable == mounted /\ ~RenderThrows(savedCalculations, currentView)

\* the page with nothing stored, once the startup effect has run
Init ==
    /\ inputs = DefaultInputs
    /\ result = NULL
    /\ error = ""
    /\ savedCalculations = ArrayOf(<<>>)
    /\ currentView = "calculator"
    /\ mobileMenuOpen = FALSE
    /\ storage = NoItem
    /\ mounted = TRUE
    /\ clock = 0
    /\ rateArg = Num(0)
    /\ rates = NULL

handleInputChange(field, value) ==
    /\ Usable
    /\ currentView = "calculator"
    /\ inputs' = [inputs EXCEPT ![field] = value]
    /\ error' = ""
    /\ UNCHANGED <<result, savedCalculations, currentView, mobileMenuOpen,
                   storage, mounted, clock, rateArg, rates>>

Calculation_allowZero(in) ==
    LET principal    == parseFloat(in.principal)
        interestRate == parseFloat(in.interestRate)
    IN  IF isNaN(principal) \/ Lt(principal, Num(0))
        THEN Throw(InvalidPrincipalMsg)
        ELSE IF isNaN(interestRate) \/ Lt(interestRate, Num(0))
        THEN Throw(InvalidRateMsg)
        ELSE IF ~datePattern(in.startDate) \/ ~datePattern(in.endDate)
        THEN Throw(InvalidDateMsg)
        ELSE calculateNepaliInterest(principal, interestRate,
                                     in.startDate, in.endDate)

\* the body of the try block: what it returns or throws
Calculation(in) ==
    LET principal    == parseFloat(in.principal)
        interestRate == parseFloat(in.interestRate)
    IN  IF isNaN(principal) \/ Le(principal, Num(0))
        THEN Throw(InvalidPrincipalMsg)
        ELSE IF isNaN(interestRate) \/ Lt(interestRate, Num(0))
        THEN Throw(InvalidRateMsg)
        ELSE IF ~datePattern(in.startDate) \/ ~datePattern(in.endDate)
        THEN Throw(InvalidDateMsg)
        ELSE calculateNepaliInterest(principal, interestRate,
                                     in.startDate, in.endDate)

handleCalculate_keepResult ==
    LET outcome == Calculation(inputs)
    IN  /\ Usable
        /\ currentView = "calculator"
        /\ IF outcome.threw
           THEN error' = outcome.message /\ result' = result
           ELSE error' = "" /\ result' = outcome.value
        /\ UNCHANGED <<inputs, savedCalculations, currentView, mobileMenuOpen,
                       storage, mounted, clock, rateArg, rates>>

handleCalculate ==
    LET outcome == Calculation(inputs)
    IN  /\ Usable
        /\ currentView = "calculator"
        /\ IF outcome.threw
           THEN error' = outcome.message /\ result' = NULL
           ELSE error' = "" /\ result' = outcome.value
        /\ UNCHANGED <<inputs, savedCalculations, currentView, mobileMenuOpen,
                       storage, mounted, clock, rateArg, rates>>

Next ==
    \/ \E field \in Fields : \E value \in FieldStrings(field) :
           handleInputChange(field, value)
    \/ handleCalculate

Spec == Init /\ [][Next]_vars

(***************************************************************************)
(* The rate interpretation on its own, over the rates 0, 0.001, 0.002, ... *)
(***************************************************************************)
MaxRateMilli == 12000

RateArgs == { Frac(k, 1000) : k \in 0..MaxRateMilli }

InitRate ==
    /\ inputs = DefaultInputs
    /\ result = NULL
    /\ error = ""
    /\ savedCalculations = ArrayOf(<<>>)
    /\ currentView = "calculator"
    /\ mobileMenuOpen = FALSE
    /\ storage = NoItem
    /\ mounted = TRUE
    /\ clock = 0
    /\ rateArg \in RateArgs
    /\ rates = NULL

interpretRate ==
    /\ rates = NULL
    /\ rates' = [monthlyRate |-> monthlyRate(rateArg),
                 annualRate  |-> annualRate(rateArg)]
    /\ UNCHANGED <<inputs, result, error, savedCalculations, currentView,
                   mobileMenuOpen, storage, mounted, clock, rateArg>>

NextRate == interpretRate

RateSpec == InitRate /\ [][NextRate]_vars

(***************************************************************************)
(* The saved calculations: the startup effect, save, load, delete and the  *)
(* navigation, over a form where the principal is edited                   *)
(***************************************************************************)
MaxSaved == 2

MaxClock == 1

StorageKey == "nepaliInterestCalculations"

RECURSIVE toString(_)
toString(i) ==
    IF i < 10 THEN <<Digit(i)>> ELSE toString(i \div 10) \o <<Digit(i % 10)>>

\* what prompt() returns: null when cancelled, else the text typed
PromptCancelled == [given |-> FALSE, text |-> <<>>]

PromptAnswers ==
    { PromptCancelled, [given |-> TRUE, text |-> <<>>],
      [given |-> TRUE, text |-> <<"A">>] }

\* the fields edited here, and what is typed into them
AppFields == {"principal"}

AppFieldStrings(field) ==
    { <<"1", "0", "0", "0", "0", "0">>, <<"0">> }

\* what the browser holds under the key when the page is first opened:
\* nothing, an empty text, texts that do not parse ("[" and {"name" "A"}),
\* texts that parse to something else than a list (null, 5 and
\* {"name":"A"}), and the empty list
StoredItems ==
    { NoItem,
      Item(<<>>),
      Item(<<Punct("[")>>),
      Item(<<Punct("{"), KeyTok("name"), StrTok(<<"A">>), Punct("}")>>),
      Item(<<Punct("null")>>),
      Item(<<IntTok(5)>>),
      Item(ObjectText(<<Member("name", <<StrTok(<<"A">>)>>)>>)),
      Item(JSONstringify(<<>>)) }

InitApp ==
    /\ inputs = DefaultInputs
    /\ result = NULL
    /\ error = ""
    /\ savedCalculations = ArrayOf(<<>>)
    /\ currentView = "calculator"
    /\ mobileMenuOpen = FALSE
    /\ storage \in StoredItems
    /\ mounted = FALSE
    /\ clock = 0
    /\ rateArg = Num(0)
    /\ rates = NULL

\* the page is loaded again: the component state is the initial one, the
\* browser keeps what is stored
pageReload ==
    /\ mounted
    /\ inputs' = DefaultInputs
    /\ result' = NULL
    /\ error' = ""
    /\ savedCalculations' = ArrayOf(<<>>)
    /\ currentView' = "calculator"
    /\ mobileMenuOpen' = FALSE
    /\ mounted' = FALSE
    /\ UNCHANGED <<storage, clock, rateArg, rates>>

\* the effect that runs once after the first render
loadSavedEffect ==
    /\ ~mounted
    /\ mounted' = TRUE
    /\ IF storage.present /\ Len(storage.text) > 0
       THEN LET parsed == JSONparse(storage.text)
            IN  IF parsed.threw
                THEN UNCHANGED savedCalculations
                ELSE savedCalculations' = parsed.value
       ELSE UNCHANGED savedCalculations
    /\ UNCHANGED <<inputs, result, error, currentView, mobileMenuOpen,
                   storage, clock, rateArg, rates>>

handleSaveCalculation_storeBeforeAppend(name, idTime, stampTime) ==
    /\ Usable
    /\ currentView = "calculator"
    /\ IF \/ result = NULL
          \/ ~name.given
          \/ Len(name.text) = 0
          \/ savedCalculations.type # "array"
       THEN UNCHANGED vars
       ELSE LET newCalculation == [id        |-> toString(idTime),
                                   timestamp |-> stampTime,
                                   inputs    |-> inputs,
                                   result    |-> result,
                                   name      |-> name.text]
                updated == Append(savedCalculations.value, newCalculation)
            IN  /\ Len(savedCalculations.value) < MaxSaved
                /\ savedCalculations' = ArrayOf(updated)
                /\ storage' = Item(JSONstringify(savedCalculations.value))
                /\ clock' = stampTime
                /\ UNCHANGED <<inputs, result, error, currentView,
                               mobileMenuOpen, mounted, rateArg, rates>>

\* the save button shows with a result in the calculator view; name is the
\* answer to the prompt, idTime and stampTime the two readings of Date.now().
\* Spreading a value that is no array throws before any state is set.
handleSaveCalculation(name, idTime, stampTime) ==
    /\ Usable
    /\ currentView = "calculator"
    /\ IF \/ result = NULL
          \/ ~name.given
          \/ Len(name.text) = 0
          \/ savedCalculations.type # "array"
       THEN UNCHANGED vars
       ELSE LET newCalculation == [id        |-> toString(idTime),
                                   timestamp |-> stampTime,
                                   inputs    |-> inputs,
                                   result    |-> result,
                                   name      |-> name.text]
                updated == Append(savedCalculations.value, newCalculation)
            IN  /\ Len(savedCalculations.value) < MaxSaved
                /\ savedCalculations' = ArrayOf(updated)
                /\ storage' = Item(JSONstringify(updated))
                /\ clock' = stampTime
                /\ UNCHANGED <<inputs, result, error, currentView,
                               mobileMenuOpen, mounted, rateArg, rates>>

\* the load button of the i-th entry of the saved view
handleLoadCalculation(i) ==
    /\ Usable
    /\ currentView = "saved"
    /\ savedCalculations.type = "array"
    /\ i \in 1..Len(savedCalculations.value)
    /\ inputs' = savedCalculations.value[i].inputs
    /\ result' = savedCalculations.value[i].result
    /\ currentView' = "calculator"
    /\ mobileMenuOpen' = FALSE
    /\ UNCHANGED <<error, savedCalculations, storage, mounted, clock,
                   rateArg, rates>>

\* the delete button of the i-th entry of the saved view; confirmed is the
\* answer to the confirm dialog
handleDeleteCalculation(i, confirmed) ==
    /\ Usable
    /\ currentView = "saved"
    /\ savedCalculations.type = "array"
    /\ i \in 1..Len(savedCalculations.value)
    /\ IF ~confirmed
       THEN UNCHANGED vars
       ELSE LET id == savedCalculations.value[i].id
                updated == SelectSeq(savedCalculations.value,
                                     LAMBDA c : c.id # id)
            IN  /\ savedCalculations' = ArrayOf(updated)
                /\ storage' = Item(JSONstringify(updated))
                /\ UNCHANGED <<inputs, result, error, currentView,
                               mobileMenuOpen, mounted, clock, rateArg,
                               rates>>

NavButton(view) ==
    /\ Usable
    /\ currentView' = view
    /\ mobileMenuOpen' = FALSE
    /\ UNCHANGED <<inputs, result, error, savedCalculations, storage,
                   mounted, clock, rateArg, rates>>

toggleMobileMenu ==
    /\ Usable
    /\ mobileMenuOpen' = ~mobileMenuOpen
    /\ UNCHANGED <<inputs, result, error, savedCalculations, currentView,
                   storage, mounted, clock, rateArg, rates>>

NextApp ==
    \/ pageReload
    \/ loadSavedEffect
    \/ \E field \in AppFields : \E value \in AppFieldStrings(field) :
           handleInputChange(field, value)
    \/ handleCalculate
    \/ \E name \in PromptAnswers :
           \E idTime \in clock..MaxClock : \E stampTime \in idTime..MaxClock :
               handleSaveCalculation(name, idTime, stampTime)
    \/ \E i \in 1..MaxSaved : handleLoadCalculation(i)
    \/ \E i \in 1..MaxSaved : \E confirmed \in BOOLEAN :
           handleDeleteCalculation(i, confirmed)
    \/ \E view \in Views : NavButton(view)
    \/ toggleMobileMenu

AppSpec == InitApp /\ [][NextApp]_vars

(***************************************************************************)
(* Vocabulary of the properties                                            *)
(***************************************************************************)
\* (year, month, day) read off the digit positions of a well-formed text
DateOf(s) ==
    <<DigitsValue(s, 1, 4), DigitsValue(s, 6, 2), DigitsValue(s, 9, 2)>>

\* a strictly precedes b in (year, month, day) lexicographic order
Precedes(a, b) ==
    \/ a[1] < b[1]
    \/ a[1] = b[1] /\ a[2] < b[2]
    \/ a[1] = b[1] /\ a[2] = b[2] /\ a[3] < b[3]

ValidPrincipal(in) ==
    ~isNaN(parseFloat(in.principal)) /\ parseFloat(in.principal).n > 0

ValidRate(in) ==
    ~isNaN(parseFloat(in.interestRate)) /\ parseFloat(in.interestRate).n >= 0

WellFormedDates(in) == datePattern(in.startDate) /\ datePattern(in.endDate)

EndPrecedesStart(in) ==
    WellFormedDates(in) /\ Precedes(DateOf(in.endDate), DateOf(in.startDate))

Accepted(in) ==
    /\ ValidPrincipal(in)
    /\ ValidRate(in)
    /\ WellFormedDates(in)
    /\ ~EndPrecedesStart(in)

ErrorMessages ==
    {InvalidPrincipalMsg, InvalidRateMsg, InvalidDateMsg, OrderingMsg}

\* a step of the calculate button
CalculateStep == inputs' = inputs /\ handleCalculate

(***************************************************************************)
(* C1                                                                      *)
(***************************************************************************)
\* C1: when the end date strictly precedes the start date in (year, month,
\* day) order, the date difference throws the ordering error and returns no
\* duration, and a calculate on such a pair leaves an error and no result
\* (the ordering error itself when principal and rate are valid).
C1_OrderingError ==
    [][ (CalculateStep /\ EndPrecedesStart(inputs)) =>
          /\ calculateBSDateDifference(inputs.startDate, inputs.endDate)
               = Throw(OrderingMsg)
          /\ error' # ""
          /\ result' = NULL
          /\ (ValidPrincipal(inputs) /\ ValidRate(inputs))
               => error' = OrderingMsg ]_vars

C1_Witness ==
    /\ EndPrecedesStart(inputs)
    /\ error = OrderingMsg
    /\ result = NULL

(***************************************************************************)
(* C2                                                                      *)
(***************************************************************************)
\* C2: every duration the calculator returns has years >= 0, months in
\* 0..11 and days in 0..29, also for dates whose month or day is out of
\* range.  (Fails: start 2078-01-01, end 2078-01-40 gives 39 days.)
C2_DurationNormalized ==
    result # NULL =>
        /\ result.timeDuration.years >= 0
        /\ result.timeDuration.months \in 0..(BS_MONTHS_PER_YEAR - 1)
        /\ result.timeDuration.days \in 0..(BS_DAYS_PER_MONTH - 1)

(***************************************************************************)
(* C3                                                                      *)
(***************************************************************************)
\* C3 as stated: a calculate that fails sets the error and leaves the
\* result that was displayed before unchanged.
C3_ResultKept ==
    [][ (CalculateStep /\ ~Accepted(inputs)) =>
          (error' \in ErrorMessages /\ result' = result) ]_vars

\* C3, amended: a calculate that fails sets the error, leaves the inputs as
\* they were, and clears the result that was displayed before.
C3_ResultCleared ==
    [][ (CalculateStep /\ ~Accepted(inputs)) =>
          /\ error' \in ErrorMessages
          /\ result' = NULL
          /\ inputs' = inputs ]_vars

C3_Witness ==
    /\ ~Accepted(inputs)
    /\ error \in ErrorMessages
    /\ result = NULL

(***************************************************************************)
(* C4                                                                      *)
(***************************************************************************)
SameDate(in) == WellFormedDates(in) /\ in.startDate = in.endDate

ZeroDuration == [years |-> 0, months |-> 0, days |-> 0]

AbsNum(x) == [n |-> Abs(x.n), d |-> x.d]

\* C4 as stated: with a valid principal and rate and start = end, the
\* duration is (0,0,0), nothing is thrown, the ledger is empty, the final
\* amount equals the principal and the total interest is 0.
C4_FinalIsPrincipal ==
    [][ (CalculateStep /\ ValidPrincipal(inputs) /\ ValidRate(inputs)
           /\ SameDate(inputs)) =>
          /\ error' = ""
          /\ result' # NULL
          /\ result'.timeDuration = ZeroDuration
          /\ result'.breakdown = <<>>
          /\ result'.finalAmount = parseFloat(inputs.principal)
          /\ result'.totalInterest = Num(0) ]_vars

\* C4, amended: ... the final amount is the principal rounded to two
\* decimals (a whole number of hundredths within 0.005 of the principal,
\* the principal itself when it has at most two decimals) ...
C4_FinalIsRoundedPrincipal ==
    [][ (CalculateStep /\ ValidPrincipal(inputs) /\ ValidRate(inputs)
           /\ SameDate(inputs)) =>
          /\ error' = ""
          /\ result' # NULL
          /\ result'.timeDuration = ZeroDuration
          /\ result'.breakdown = <<>>
          /\ LET p == parseFloat(inputs.principal)
                 f == result'.finalAmount
             IN  /\ 100 % f.d = 0
                 /\ Le(AbsNum(Sub(f, p)), Frac(1, 200))
                 /\ (100 % p.d = 0) => f = p
          /\ result'.totalInterest = Num(0) ]_vars

C4_Witness ==
    /\ ValidPrincipal(inputs) /\ ValidRate(inputs) /\ SameDate(inputs)
    /\ error = ""
    /\ result # NULL
    /\ result.breakdown = <<>>
    /\ parseFloat(inputs.principal) = Frac(5, 1000)
    /\ result.finalAmount = Frac(1, 100)

(***************************************************************************)
(* C5                                                                      *)
(***************************************************************************)
\* C5: a rate r < 10 is the monthly rate and the annual rate is r * 12;
\* otherwise r is the annual rate and the monthly rate is r / 12.  Rate 10
\* is annual (annual rate 10); rate 9.999 is monthly (annual rate 119.988).
C5_RateInterpretation ==
    rates # NULL =>
        /\ IF rateArg.n < 10 * rateArg.d
           THEN /\ rates.monthlyRate = rateArg
                /\ rates.annualRate = Frac(12 * rateArg.n, rateArg.d)
           ELSE /\ rates.annualRate = rateArg
                /\ rates.monthlyRate = Frac(rateArg.n, 12 * rateArg.d)
        /\ rateArg = Num(10) => rates.annualRate = Num(10)
        /\ rateArg = Frac(9999, 1000) => rates.annualRate = Frac(119988, 1000)

C5_Witness ==
    /\ rates # NULL
    /\ rateArg = Frac(9999, 1000)
    /\ rates.monthlyRate = Frac(9999, 1000)
    /\ rates.annualRate = Frac(119988, 1000)

(***************************************************************************)
(* C6                                                                      *)
(***************************************************************************)
\* the annual and the monthly percentage as the rate policy states them
PolicyAnnual(r) == IF r.n < 10 * r.d THEN Frac(12 * r.n, r.d) ELSE r

PolicyMonthly(r) == IF r.n < 10 * r.d THEN r ELSE Frac(r.n, 12 * r.d)

\* C6: the ledger begins with exactly Y entries "Year 1" .. "Year Y" for a
\* duration of Y full years; the first starts from the principal, each
\* later one from the previous ending amount, and in each
\* interest = startingPrincipal * annualRate / 100 and
\* endingAmount = startingPrincipal + interest.
C6_YearEntries ==
    [][ (CalculateStep /\ result' # NULL) =>
          LET P == parseFloat(inputs.principal)
              a == PolicyAnnual(parseFloat(inputs.interestRate))
              Y == result'.timeDuration.years
              b == result'.breakdown
          IN  /\ Y >= 0
              /\ Len(b) \in {Y, Y + 1}
              /\ \A i \in 1..Y :
                   /\ b[i].period = "Year " \o ToString(i)
                   /\ b[i].startingPrincipal =
                        (IF i = 1 THEN P ELSE b[i - 1].endingAmount)
                   /\ b[i].interest =
                        Div(Mul(b[i].startingPrincipal, a), Num(100))
                   /\ b[i].endingAmount =
                        Add(b[i].startingPrincipal, b[i].interest)
              /\ Len(b) = Y + 1 =>
                   b[Y + 1].period # "Year " \o ToString(Y + 1) ]_vars

C6_Witness ==
    /\ result # NULL
    /\ result.timeDuration.years = 2
    /\ Len(result.breakdown) >= 2
    /\ result.breakdown[1].period = "Year 1"
    /\ result.breakdown[2].period = "Year 2"
    /\ result.breakdown[2].startingPrincipal
         = result.breakdown[1].endingAmount

(***************************************************************************)
(* C7                                                                      *)
(***************************************************************************)
\* P * (1 + a/100)^Y
RECURSIVE Compounded(_, _, _)
Compounded(P, a, Y) ==
    IF Y = 0 THEN P
    ELSE Mul(Compounded(P, a, Y - 1), Add(Num(1), Div(a, Num(100))))

\* C7: the ledger ends with exactly one trailing entry iff months > 0 or
\* days > 0; it starts from the principal after the full years (the
\* original principal when there are none), its interest is
\* (P*monthlyRate/100)*months + ((P*monthlyRate/100)/30)*days and its
\* ending amount is P + that interest.
C7_TrailingEntry ==
    [][ (CalculateStep /\ result' # NULL) =>
          \A d \in {result'.timeDuration} :
          \A m \in {PolicyMonthly(parseFloat(inputs.interestRate))} :
          \A P \in {Compounded(parseFloat(inputs.principal),
                               PolicyAnnual(parseFloat(inputs.interestRate)),
                               d.years)} :
          \A perMonth \in {Div(Mul(P, m), Num(100))} :
          \A interest \in {Add(Mul(perMonth, Num(d.months)),
                               Mul(Div(perMonth, Num(30)), Num(d.days)))} :
          LET b == result'.breakdown
          IN  IF d.months > 0 \/ d.days > 0
              THEN /\ Len(b) = d.years + 1
                   /\ b[Len(b)].startingPrincipal = P
                   /\ d.years = 0 =>
                        b[Len(b)].startingPrincipal
                          = parseFloat(inputs.principal)
                   /\ b[Len(b)].interest = interest
                   /\ b[Len(b)].endingAmount = Add(P, interest)
              ELSE Len(b) = d.years ]_vars

C7_Witness ==
    /\ result # NULL
    /\ result.timeDuration = [years |-> 2, months |-> 3, days |-> 3]
    /\ Len(result.breakdown) = 3
    /\ result.breakdown[3].startingPrincipal
         = result.breakdown[2].endingAmount
    /\ result.breakdown[3].period = "3 months 3 days"

(***************************************************************************)
(* C8                                                                      *)
(***************************************************************************)
Hundredths(k) == Frac(k, 100)

\* the two year entries of the worked example
ExampleYears(b) ==
    /\ b[1].period = "Year 1"
    /\ b[1].startingPrincipal = Num(100000)
    /\ b[1].interest = Num(36000)
    /\ b[1].endingAmount = Num(136000)
    /\ b[2].period = "Year 2"
    /\ b[2].interest = Num(48960)
    /\ b[2].endingAmount = Num(184960)

C9_ValidationOrder ==
    [][ CalculateStep =>
          /\ ~ValidPrincipal(inputs) =>
               (error' = InvalidPrincipalMsg /\ result' = NULL)
          /\ (ValidPrincipal(inputs) /\ ~ValidRate(inputs)) =>
               (error' = InvalidRateMsg /\ result' = NULL)
          /\ (ValidPrincipal(inputs) /\ ValidRate(inputs)
                /\ ~WellFormedDates(inputs)) =>
               (error' = InvalidDateMsg /\ result' = NULL) ]_vars

C9_Witness ==
    /\ ValidPrincipal(inputs)
    /\ ValidRate(inputs)
    /\ inputs.startDate = <<"2", "0", "8", "0", "/", "0", "1", "/", "0", "1">>
    /\ error = InvalidDateMsg
    /\ result = NULL

(***************************************************************************)
(* C10                                                                     *)
(***************************************************************************)
PositiveRate(in) == ValidRate(in) /\ parseFloat(in.interestRate).n > 0

\* the accepted inputs that differ from `in` in the dates only and whose
\* duration is that of `d` with one more year
OneMoreYear(in, d) ==
    { in2 \in { [in EXCEPT !.startDate = s, !.endDate = e] :
                  s \in DateStrings, e \in DateStrings } :
        /\ Accepted(in2)
        /\ Calculation(in2).value.timeDuration
             = [d EXCEPT !.years = d.years + 1] }

\* C10 as stated: with a rate > 0, one more year in the duration (same
\* principal, rate, months and days) strictly increases the final amount
\* of the result.
C10_StrictlyIncreasing ==
    [][ (CalculateStep /\ result' # NULL /\ PositiveRate(inputs)) =>
          \A in2 \in OneMoreYear(inputs, result'.timeDuration) :
              Lt(result'.finalAmount, Calculation(in2).value.finalAmount)
      ]_vars

\* C10, amended: with a rate > 0 and a duration of non-negative months and
\* days, one more year in the duration never decreases the final amount of
\* the result (after rounding to two decimals the two can be equal).
C10_NonDecreasing ==
    [][ (CalculateStep /\ result' # NULL /\ PositiveRate(inputs)
           /\ result'.timeDuration.months >= 0
           /\ result'.timeDuration.days >= 0) =>
          \A in2 \in OneMoreYear(inputs, result'.timeDuration) :
              Le(result'.finalAmount, Calculation(in2).value.finalAmount)
      ]_vars

C10_Witness ==
    /\ PositiveRate(inputs)
    /\ parseFloat(inputs.principal) = Frac(5, 1000)
    /\ error = ""
    /\ result # NULL
    /\ result.timeDuration = [years |-> 1, months |-> 0, days |-> 0]
    /\ result.finalAmount = Hundredths(1)
    /\ OneMoreYear(inputs, [years |-> 0, months |-> 0, days |-> 0]) # {}

(***************************************************************************)
(* Saved calculations                                                      *)
(***************************************************************************)
\* the step is a save: the prompt answered in some way at some time
SaveStep(name) ==
    \E idTime \in clock..MaxClock : \E stampTime \in idTime..MaxClock :
        handleSaveCalculation(name, idTime, stampTime)

\* the collection after the step is the one before it with one entry at
\* its end, made of the current inputs and result
Appended ==
    LET before == savedCalculations.value
        after  == savedCalculations'.value
    IN  /\ currentView = "calculator"
        /\ result # NULL
        /\ Len(after) = Len(before) + 1
        /\ SubSeq(after, 1, Len(before)) = before
        /\ after[Len(after)].inputs = inputs
        /\ after[Len(after)].result = result
        /\ Len(after[Len(after)].name) > 0

\* the collection after the step is the one before it without the entries
\* that have the identifier of one of its entries, the others in order
Removed ==
    LET before == savedCalculations.value
        after  == savedCalculations'.value
    IN  /\ currentView = "saved"
        /\ \E i \in 1..Len(before) :
               after = SelectSeq(before, LAMBDA c : c.id # before[i].id)

\* C11: while the page is running (after its startup and until it is loaded
\* again), every step that changes the collection in memory or the value
\* stored under the key is a save that appends one
\* entry at the end or a delete that removes the entries with one
\* identifier and keeps the others in order, and after it the stored value
\* is the serialization of the whole collection in memory (and parses back
\* to it); a save with no result, a save whose prompt is cancelled or
\* answered with the empty text, and a delete whose confirmation is
\* declined change neither the collection nor the stored value.
C11_StoreMirrorsCollection ==
    [][ (mounted /\ mounted') =>
          /\ (savedCalculations' # savedCalculations \/ storage' # storage)
                => /\ savedCalculations.type = "array"
                   /\ savedCalculations'.type = "array"
                   /\ Appended \/ Removed
                   /\ storage' = Item(JSONstringify(savedCalculations'.value))
                   /\ JSONparse(storage'.text) = Return(savedCalculations')
          /\ (result = NULL /\ \E name \in PromptAnswers : SaveStep(name))
                => UNCHANGED <<savedCalculations, storage>>
          /\ (\E name \in PromptAnswers :
                   (~name.given \/ Len(name.text) = 0) /\ SaveStep(name))
                => UNCHANGED <<savedCalculations, storage>>
          /\ (\E i \in 1..MaxSaved : handleDeleteCalculation(i, FALSE))
                => UNCHANGED <<savedCalculations, storage>>
      ]_vars

\* a save has completed (the clock has moved) and then deletes have emptied
\* the collection, and the stored value is the text of the empty list
C11_Witness ==
    /\ mounted
    /\ clock > 0
    /\ currentView = "saved"
    /\ savedCalculations = ArrayOf(<<>>)
    /\ storage = Item(JSONstringify(<<>>))

\* the stored value is no serialization of a collection of saved
\* calculations: it does not parse, or it parses to something else than a list
Malformed(item) ==
    /\ item.present
    /\ \/ JSONparse(item.text).threw
       \/ JSONparse(item.text).value.type # "array"

\* the step is the startup of the page
StartupStep == ~mounted /\ mounted'

\* C12: when the page starts with a malformed value under the key, or with
\* no value under it, the collection in memory after the startup is the
\* empty list and the page renders (no error reaches the user).
C12_MalformedStartsEmpty ==
    [][ (StartupStep /\ (Malformed(storage) \/ ~storage.present))
          => /\ savedCalculations'.type = "array"
             /\ Len(savedCalculations'.value) = 0
             /\ ~RenderThrows(savedCalculations', currentView')
      ]_vars

\* C13: every saved calculation in memory holds inputs whose calculation
\* succeeds and gives the result saved with them.
C13_SavedInputsProduceResult ==
    (mounted /\ savedCalculations.type = "array")
        => \A i \in 1..Len(savedCalculations.value) :
               LET outcome == Calculation(savedCalculations.value[i].inputs)
               IN  /\ ~outcome.threw
                   /\ outcome.value = savedCalculations.value[i].result

====
